---- MODULE Spec2Model ----
(***************************************************************************)
(* Leave-request validation and lifecycle engine of the Slack leave app    *)
(* (leavebot/slackapp): the form handlers of views.py, the validation      *)
(* rules, the business-day arithmetic of models.py and the stored          *)
(* LeaveRequest / LeaveRequestAudit rows.                                  *)
(*                                                                         *)
(* Every handler is decorated @transaction.atomic and the configured       *)
(* storage is SQLite (settings.py), whose transactions are serializable,   *)
(* so one handler call is one atomic action of the model.  A handler       *)
(* catches its own exceptions and returns a response, so the transaction   *)
(* it runs in always commits what was written before the exception.        *)
(***************************************************************************)
EXTENDS Integers, Sequences, FiniteSets, Bags, TLC

VARIABLES
    today,      \* date.today(), a day number (day 0 is Monday 1 January 2024)
    employees,  \* slack_user_id of every Employee row
    requests,   \* LeaveRequest table: requests[id] is the row with primary key id
    audit,      \* LeaveRequestAudit table: audit[id] is the audit_trail of request id, oldest first
    reminders,  \* bag of the send_manager_reminder tasks the broker holds
    announced,  \* bag of request ids: one copy per public announcement posted for the request
    outbox,     \* the Slack messages the last step delivered
    form,       \* the create or update form the last step submitted
    request_channel, \* os.getenv("SLACK_REQUEST_CHANNEL"): the fallback channel, "" when unset
    inbound,    \* the HTTP request the last step received at a Slack endpoint
    sessions,   \* the open database transaction of each connection, its lock and what it read
    last        \* the handler call made by the last step, and what it answered

vars == <<today, employees, requests, audit, reminders, announced, outbox, form,
          request_channel, inbound, sessions, last>>

(***************************************************************************)
(* Bounds of the model.                                                    *)
(***************************************************************************)
MaxRequests == 1        \* rows the LeaveRequest table may hold
MaxTrail == 3           \* audit rows one request may collect
MaxTasks == 1           \* reminder tasks the broker may hold
MaxAnnouncements == 2   \* public announcements one request may collect
Foreseen == 2           \* attempts of one send whose answers the environment fixes

(***************************************************************************)
(* Reference data (administrator-owned, fixed).                            *)
(***************************************************************************)
Users == {"E", "M"}
Manager(u) == IF u = "E" THEN "M" ELSE ""
DefaultAllowance == 2
monthly_leave_allowance(u) == DefaultAllowance
LeaveTypes == {"Vacation", "Unplanned"}
TypeStrings == LeaveTypes \cup {"Emergency"}
Reasons == {"trip"}
Holidays == {35}
SLACK_REQUEST_CHANNEL == "C_REQ"

STATUS_PENDING == "pending"
STATUS_APPROVED == "approved"
STATUS_REJECTED == "rejected"
STATUS_CANCELLED == "cancelled"
Statuses == {STATUS_PENDING, STATUS_APPROVED, STATUS_REJECTED, STATUS_CANCELLED}
Terminal == {STATUS_APPROVED, STATUS_REJECTED, STATUS_CANCELLED}

(***************************************************************************)
(* Calendar.  Day d is d days after Monday 1 January 2024.                 *)
(***************************************************************************)
Weekday(d) == d % 7
MonthOf(d) == IF d < 31 THEN 1 ELSE IF d < 60 THEN 2 ELSE 3
LookBackDays == 30

HolidaysInRange(s, e) == {h \in Holidays : s <= h /\ h <= e}

RECURSIVE CountBusinessDays(_, _, _)
CountBusinessDays(d, e, hol) ==
    IF d > e THEN 0
    ELSE (IF Weekday(d) < 5 /\ d \notin hol THEN 1 ELSE 0)
         + CountBusinessDays(d + 1, e, hol)

calendar_days(s, e) == IF s > e THEN 0 ELSE e - s + 1

requested_days(s, e) == CountBusinessDays(s, e, HolidaysInRange(s, e))

duration_days(r) ==
    LET business_days == CountBusinessDays(r.start_date, r.end_date,
                             HolidaysInRange(r.start_date, r.end_date))
    IN  IF business_days > 0 THEN business_days ELSE 1

(***************************************************************************)
(* Validation: validate_leave_request, the rules in the order of the code. *)
(* exclude is the id of the request being edited, 0 for a new request.     *)
(***************************************************************************)
Ids == 1..Len(requests)

RECURSIVE days_taken(_)
days_taken(S) ==
    IF S = {} THEN 0
    ELSE LET i == CHOOSE j \in S : TRUE
         IN  duration_days(requests[i]) + days_taken(S \ {i})

Verdict(tag, rem) == [tag |-> tag, remaining |-> rem]

is_unplanned(leave_type_str) == leave_type_str \in {"Unplanned", "Emergency"}

PastDateCheck_rejects_today(start_date, leave_type_str) ==
    IF is_unplanned(leave_type_str)
    THEN start_date > today \/ start_date < today - LookBackDays
    ELSE start_date <= today

PastDateCheck(start_date, leave_type_str) ==
    IF is_unplanned(leave_type_str)
    THEN start_date > today \/ start_date < today - LookBackDays
    ELSE start_date < today

overlapping_query_pending_only(employee, start_date, end_date, exclude) ==
    {i \in Ids : /\ requests[i].employee = employee
                 /\ requests[i].status = STATUS_PENDING
                 /\ requests[i].start_date <= end_date
                 /\ requests[i].end_date >= start_date
                 /\ i # exclude}

overlapping_query_counting_rejected(employee, start_date, end_date, exclude) ==
    {i \in Ids : /\ requests[i].employee = employee
                 /\ requests[i].status
                       \in {STATUS_PENDING, STATUS_APPROVED, STATUS_REJECTED}
                 /\ requests[i].start_date <= end_date
                 /\ requests[i].end_date >= start_date
                 /\ i # exclude}

overlapping_query_with_edited(employee, start_date, end_date, exclude) ==
    {i \in Ids : /\ requests[i].employee = employee
                 /\ requests[i].status \in {STATUS_PENDING, STATUS_APPROVED}
                 /\ requests[i].start_date <= end_date
                 /\ requests[i].end_date >= start_date}

overlapping_query_exclusive(employee, start_date, end_date, exclude) ==
    {i \in Ids : /\ requests[i].employee = employee
                 /\ requests[i].status \in {STATUS_PENDING, STATUS_APPROVED}
                 /\ requests[i].start_date < end_date
                 /\ requests[i].end_date > start_date
                 /\ i # exclude}

overlapping_query(employee, start_date, end_date, exclude) ==
    {i \in Ids : /\ requests[i].employee = employee
                 /\ requests[i].status \in {STATUS_PENDING, STATUS_APPROVED}
                 /\ requests[i].start_date <= end_date
                 /\ requests[i].end_date >= start_date
                 /\ i # exclude}

requests_this_month_query_approved_only(employee, start_date, exclude) ==
    {i \in Ids : /\ requests[i].employee = employee
                 /\ requests[i].status = STATUS_APPROVED
                 /\ MonthOf(requests[i].start_date) = MonthOf(start_date)
                 /\ i # exclude}

requests_this_month_query_with_edited(employee, start_date, exclude) ==
    {i \in Ids : /\ requests[i].employee = employee
                 /\ requests[i].status \in {STATUS_PENDING, STATUS_APPROVED}
                 /\ MonthOf(requests[i].start_date) = MonthOf(start_date)}

requests_this_month_query(employee, start_date, exclude) ==
    {i \in Ids : /\ requests[i].employee = employee
                 /\ requests[i].status \in {STATUS_PENDING, STATUS_APPROVED}
                 /\ MonthOf(requests[i].start_date) = MonthOf(start_date)
                 /\ i # exclude}

remaining_allowance(employee, start_date, exclude) ==
    monthly_leave_allowance(employee)
    - days_taken(requests_this_month_query(employee, start_date, exclude))

validate_leave_request(employee, start_date, end_date, leave_type_str, exclude) ==
    IF PastDateCheck(start_date, leave_type_str) THEN Verdict("PastDate", 0)
    ELSE IF end_date < start_date THEN Verdict("InvalidRange", 0)
    ELSE IF requested_days(start_date, end_date) = 0 THEN Verdict("NonWorkingRange", 0)
    ELSE IF overlapping_query(employee, start_date, end_date, exclude) # {}
         THEN Verdict("Overlap", 0)
    ELSE IF requested_days(start_date, end_date)
              > remaining_allowance(employee, start_date, exclude)
         THEN Verdict("AllowanceExceeded",
                      remaining_allowance(employee, start_date, exclude))
    ELSE Verdict("Ok", 0)

(***************************************************************************)
(* The environment of one handler call: the outcome of each Slack call     *)
(* ("api_error": the platform answers with an error, a SlackApiError;      *)
(* "exception": any other exception, such as a network failure), of each   *)
(* storage write and of the task broker.                                   *)
(***************************************************************************)
SlackWorks == {"ok"}
SlackAnswers == {"ok", "api_error"}
SlackFailures == {"ok", "api_error", "exception"}
StorageWorks == {"ok"}
StorageFailures == {"ok", "error"}

(***************************************************************************)
(* Rows and call records.                                                  *)
(***************************************************************************)
NewRequest(employee, leave_type, start_date, end_date, reason) ==
    [employee |-> employee, leave_type |-> leave_type,
     start_date |-> start_date, end_date |-> end_date, reason |-> reason,
     status |-> STATUS_PENDING, approver |-> "",
     slack_channel_id |-> "", slack_message_ts |-> 0]

AuditRow(action, performed_by) == [action |-> action, performed_by |-> performed_by]

audit_create_replacing(trail, row) == <<row>>

audit_create(trail, row) == Append(trail, row)

HasHandle(r) == r.slack_channel_id # "" /\ r.slack_message_ts # 0

IsAnyStatus(r) == r.status \in Statuses
IsNotApproved(r) == r.status # STATUS_APPROVED

IsPending(r) == r.status = STATUS_PENDING

Call(op, id, user, pre, result, response, wrote, audited) ==
    [op |-> op, id |-> id, user |-> user, pre |-> pre, result |-> result,
     remaining |-> 0, response |-> response, wrote |-> wrote, audited |-> audited,
     tries |-> <<>>]

NoCall == Call("none", 0, "", "none", "none", "none", FALSE, FALSE)

(***************************************************************************)
(* Database connections.  Each handler runs in one transaction             *)
(* (@transaction.atomic) on its own connection; a session records the      *)
(* phase of that transaction, the SQLite lock it holds, the form it is     *)
(* processing, the row it read or is about to store, the answer the        *)
(* handler has prepared, and how many audit rows the table held when the   *)
(* transaction first read it.                                              *)
(***************************************************************************)
Connections == {1, 2}

Idle ==
    [phase |-> "idle", lock |-> "NONE",
     form |-> [user |-> "", id |-> 0, start_date |-> 0, end_date |-> 0, leave_type |-> ""],
     row |-> NewRequest("", "", 0, 0, ""), answer |-> "none", seen |-> 0]

Done == [Idle EXCEPT !.phase = "done"]

NoSessions == [c \in Connections |-> Idle]
NoRequest == [endpoint |-> "", has_signature |-> FALSE, has_timestamp |-> FALSE,
              age |-> 0, secret_set |-> FALSE, signature_matches |-> FALSE]
NoForm == [user |-> "", id |-> 0, start_date |-> 0, end_date |-> 0, leave_type |-> ""]

Form(user, id, start_date, end_date, leave_type_str) ==
    [user |-> user, id |-> id, start_date |-> start_date, end_date |-> end_date,
     leave_type |-> leave_type_str]

(***************************************************************************)
(* Slack messages.  A message is named by the call site that sends it and  *)
(* the channel it goes to; a call that Slack answers with an error, or     *)
(* that raises, delivers nothing.                                          *)
(***************************************************************************)
Msg(kind, channel) == [kind |-> kind, channel |-> channel]

Delivered(outcome, msg) == IF outcome = "ok" THEN {msg} ELSE {}

Sent(msgs) == outbox' = msgs

(***************************************************************************)
(* send_approval_request: the destination of the approval prompt.          *)
(***************************************************************************)
destination_channel_fallback_first(employee) ==
    IF request_channel # "" THEN request_channel ELSE Manager(employee)

destination_channel(employee) ==
    IF Manager(employee) # "" THEN Manager(employee) ELSE request_channel

(***************************************************************************)
(* update_approval_message passes is_cancelled to                          *)
(* get_approval_message_blocks, which has no such parameter: with a stored *)
(* handle the call raises TypeError, which the SlackApiError clause does   *)
(* not catch; without a handle the function returns before the call.       *)
(***************************************************************************)
update_approval_message_raises(r) == HasHandle(r)

(***************************************************************************)
(* The end of a handler's transaction.  Commit: the handler returned a     *)
(* response, possibly from its except clause, and the rows it wrote are    *)
(* stored.  Rollback: a storage write raised; Model.save marks the         *)
(* transaction for rollback before the handler's except clause sees the    *)
(* error, so the rows written so far (rows, trails) are discarded when the *)
(* handler returns.                                                        *)
(***************************************************************************)
Commit(rows, trails, call) ==
    /\ requests' = rows
    /\ audit' = trails
    /\ last' = call

Refuse(call) == Commit(requests, audit, call)

(***************************************************************************)
(* The except clauses for Employee.DoesNotExist, LeaveType.DoesNotExist    *)
(* and LeaveRequest.DoesNotExist: an error answer, nothing written.        *)
(***************************************************************************)
does_not_exist_silent(call) ==
    Refuse([call EXCEPT !.result = "NotFound", !.response = "200"])

does_not_exist(call) == Refuse([call EXCEPT !.result = "NotFound"])

RollbackKeepsRows(rows, trails, call) ==
    Commit(rows, trails, [call EXCEPT !.wrote = rows # requests,
                                      !.audited = trails # audit])

Rollback(rows, trails, call) == Commit(requests, audit, call)

(***************************************************************************)
(* The task broker: apply_async queues one task for the new request id.    *)
(***************************************************************************)
MaxRetries == 3

Task(id) == [id |-> id, retries |-> 0]

apply_async(id) == reminders (+) SetToBag({Task(id)})

InvalidButLogged(call, verdict) ==
    Commit(requests,
           IF call.id \in Ids
           THEN [audit EXCEPT ![call.id] = Append(@, AuditRow("updated", call.user))]
           ELSE audit,
           [call EXCEPT !.result = verdict.tag, !.remaining = verdict.remaining])

Invalid(call, verdict) ==
    Refuse([call EXCEPT !.result = verdict.tag, !.remaining = verdict.remaining])

(***************************************************************************)
(* handle_modal_submission: create.  O is the set of outcomes a Slack call *)
(* may have and D the set of outcomes of a storage write or of the task    *)
(* broker; an outcome the code does not catch ends the handler with the    *)
(* rows written so far.                                                    *)
(***************************************************************************)
(***************************************************************************)
(* A send of the approval prompt.  tries[k] is the answer Slack gives to   *)
(* the k-th attempt, were it made; the code calls chat_postMessage once    *)
(* and neither loops nor asks the client for retries, so the send has the  *)
(* outcome of the first attempt.                                           *)
(***************************************************************************)
send_attempts == 1

chat_postMessage(tries) ==
    IF \E k \in 1..send_attempts : tries[k] = "ok" THEN "ok" ELSE tries[send_attempts]

created_row_without_handle(user, leave_type_str, start_date, end_date, reason, id, sent) ==
    NewRequest(user, leave_type_str, start_date, end_date, reason)

created_row(user, leave_type_str, start_date, end_date, reason, id, sent) ==
    LET r == NewRequest(user, leave_type_str, start_date, end_date, reason)
    IN  IF sent
        THEN [r EXCEPT !.slack_channel_id = destination_channel(user),
                       !.slack_message_ts = id]
        ELSE r

handle_modal_submission(user, start_date, end_date, leave_type_str, reason, O, D) ==
    LET id == Len(requests) + 1
        verdict == validate_leave_request(user, start_date, end_date, leave_type_str, 0)
        Failed == Call("create", 0, user, "none", "Error", "errors", FALSE, FALSE)
        Row(sent) == created_row(user, leave_type_str, start_date, end_date, reason, id, sent)
        prompt_msg == Msg("prompt", destination_channel(user))
        Created(sent, ok, tries) ==
            Commit(Append(requests, Row(sent)),
                   Append(audit, <<AuditRow("created", user)>>),
                   [Call("create", id, user, "none", IF ok THEN "Done" ELSE "Error",
                         IF ok THEN "200" ELSE "errors", TRUE, TRUE)
                       EXCEPT !.tries = tries])
        Confirm(sent, msgs, tries) ==
            \E confirm \in O :
                /\ Created(sent, confirm = "ok", tries)
                /\ Sent(msgs \cup Delivered(confirm, Msg("employee_dm", user)))
    IN
    /\ UNCHANGED <<request_channel, inbound, sessions, today, employees, announced>>
    /\ form' = Form(user, 0, start_date, end_date, leave_type_str)
    /\ IF user \notin employees
       THEN /\ does_not_exist(Failed)
            /\ Sent({}) /\ UNCHANGED reminders
       ELSE IF verdict.tag # "Ok"
       THEN Invalid(Failed, verdict) /\ Sent({}) /\ UNCHANGED reminders
       ELSE IF leave_type_str \notin LeaveTypes
       THEN /\ does_not_exist(Failed)
            /\ Sent({}) /\ UNCHANGED reminders
       ELSE \E insert \in D :
            IF insert # "ok"
            THEN Rollback(requests, audit, Failed) /\ Sent({}) /\ UNCHANGED reminders
            ELSE \E log \in D :
            IF log # "ok"
            THEN /\ Rollback(Append(requests, Row(FALSE)), Append(audit, <<>>), Failed)
                 /\ Sent({}) /\ UNCHANGED reminders
            ELSE \E schedule \in D :
            IF schedule # "ok"
            THEN Created(FALSE, FALSE, <<>>) /\ Sent({}) /\ UNCHANGED reminders
            ELSE /\ reminders' = apply_async(id)
                 /\ IF destination_channel(user) = ""
                    THEN Confirm(FALSE, {}, <<>>)
                    ELSE \E tries \in [1..Foreseen -> O] :
                    LET prompt == chat_postMessage(tries) IN
                    IF prompt = "exception" THEN Created(FALSE, FALSE, tries) /\ Sent({})
                    ELSE IF prompt = "api_error" THEN Confirm(FALSE, {}, tries)
                    ELSE \E store \in D :
                    IF store # "ok"
                    THEN /\ Rollback(Append(requests, Row(FALSE)),
                                     Append(audit, <<AuditRow("created", user)>>), Failed)
                         /\ Sent({prompt_msg})
                    ELSE Confirm(TRUE, {prompt_msg}, tries)

(***************************************************************************)
(* update_approval_message, after the request and its audit row are        *)
(* written: the set of its possible outcomes.  halt tells that an          *)
(* exception left the function, which sends the handler to its except      *)
(* clause; msgs are the messages it delivered.                             *)
(***************************************************************************)
update_approval_message(r, O) ==
    IF ~HasHandle(r) THEN {[halt |-> FALSE, msgs |-> {}]}
    ELSE IF update_approval_message_raises(r) THEN {[halt |-> TRUE, msgs |-> {}]}
    ELSE {[halt |-> edit = "exception",
           msgs |-> Delivered(edit, Msg("message_update", r.slack_channel_id))] :
             edit \in O}

(***************************************************************************)
(* The thread note that cancel and update post under the approval prompt:  *)
(* the set of its possible outcomes.  The call is not guarded, so any      *)
(* failure sends the handler to its except clause.                         *)
(***************************************************************************)
thread_note(r, O) ==
    IF ~HasHandle(r) THEN {[halt |-> FALSE, msgs |-> {}]}
    ELSE {[halt |-> note # "ok",
           msgs |-> Delivered(note, Msg("thread_note", r.slack_channel_id))] :
             note \in O}

(***************************************************************************)
(* handle_cancel_submission: cancel.                                       *)
(***************************************************************************)
cancelled_row_unsaved(r) == r
cancelled_row_with_approver(r) ==
    [r EXCEPT !.status = STATUS_CANCELLED, !.approver = r.employee]

cancelled_row(r) == [r EXCEPT !.status = STATUS_CANCELLED]

handle_cancel_submission(id, O, D) ==
    LET r == requests[id]
        Failed == Call("cancel", id, r.employee, r.status, "Error", "500", FALSE, FALSE)
        Cancelled(ok) ==
            Commit([requests EXCEPT ![id] = cancelled_row(r)],
                   [audit EXCEPT ![id] = audit_create(@, AuditRow("cancelled", r.employee))],
                   Call("cancel", id, r.employee, r.status, IF ok THEN "Done" ELSE "Error",
                        IF ok THEN "200" ELSE "500", TRUE, TRUE))
        Stop(msgs) == Cancelled(FALSE) /\ Sent(msgs)
        Confirm(msgs) ==
            \E confirm \in O :
                /\ Cancelled(confirm = "ok")
                /\ Sent(msgs \cup Delivered(confirm, Msg("employee_dm", r.employee)))
        Edit(msgs) ==
            \E u \in update_approval_message(cancelled_row(r), O) :
                IF u.halt THEN Stop(msgs \cup u.msgs) ELSE Confirm(msgs \cup u.msgs)
    IN
    /\ UNCHANGED <<request_channel, inbound, sessions, today, employees, reminders, announced>>
    /\ form' = NoForm
    /\ IF id \notin Ids
       THEN /\ does_not_exist(Call("cancel", id, "", "none", "Error", "404", FALSE, FALSE))
            /\ Sent({})
       ELSE IF ~IsPending(r)
       THEN \E notice \in O :
            /\ Refuse([Failed EXCEPT !.result = "Conflict",
                                     !.response = IF notice = "ok" THEN "200" ELSE "500"])
            /\ Sent(Delivered(notice, Msg("conflict_notice", r.employee)))
       ELSE \E save \in D :
            IF save # "ok" THEN Rollback(requests, audit, Failed) /\ Sent({})
            ELSE \E log \in D :
            IF log # "ok"
            THEN /\ Rollback([requests EXCEPT ![id] = cancelled_row(r)], audit, Failed)
                 /\ Sent({})
            ELSE \E n \in thread_note(r, O) :
                 IF n.halt THEN Stop(n.msgs) ELSE Edit(n.msgs)

(***************************************************************************)
(* handle_update_submission: update.  The handler never reads the status.  *)
(***************************************************************************)
updated_row_as_new(r, start_date, end_date, leave_type_str, reason) ==
    [r EXCEPT !.start_date = start_date, !.end_date = end_date,
              !.leave_type = leave_type_str, !.reason = reason,
              !.status = STATUS_PENDING, !.approver = ""]

updated_row_without_handle(r, start_date, end_date, leave_type_str, reason) ==
    [r EXCEPT !.start_date = start_date, !.end_date = end_date,
              !.leave_type = leave_type_str, !.reason = reason,
              !.slack_channel_id = "", !.slack_message_ts = 0]

updated_row(r, start_date, end_date, leave_type_str, reason) ==
    [r EXCEPT !.start_date = start_date, !.end_date = end_date,
              !.leave_type = leave_type_str, !.reason = reason]

handle_update_submission(id, start_date, end_date, leave_type_str, reason, O, D) ==
    LET r == requests[id]
        verdict == validate_leave_request(r.employee, start_date, end_date,
                                          leave_type_str, id)
        Failed == Call("update", id, r.employee, r.status, "Error", "errors", FALSE, FALSE)
        Row == updated_row(r, start_date, end_date, leave_type_str, reason)
        Updated(ok) ==
            Commit([requests EXCEPT ![id] = Row],
                   [audit EXCEPT ![id] = audit_create(@, AuditRow("updated", r.employee))],
                   Call("update", id, r.employee, r.status, IF ok THEN "Done" ELSE "Error",
                        IF ok THEN "200" ELSE "errors", TRUE, TRUE))
        Stop(msgs) == Updated(FALSE) /\ Sent(msgs)
        Confirm(msgs) ==
            \E confirm \in O :
                /\ Updated(confirm = "ok")
                /\ Sent(msgs \cup Delivered(confirm, Msg("employee_dm", r.employee)))
        Edit(msgs) ==
            \E u \in update_approval_message(Row, O) :
                IF u.halt THEN Stop(msgs \cup u.msgs) ELSE Confirm(msgs \cup u.msgs)
    IN
    /\ UNCHANGED <<request_channel, inbound, sessions, today, employees, reminders, announced>>
    /\ form' = Form(IF id \in Ids THEN r.employee ELSE "", id,
                    start_date, end_date, leave_type_str)
    /\ IF id \notin Ids
       THEN /\ does_not_exist(Call("update", id, "", "none", "Error", "errors", FALSE, FALSE))
            /\ Sent({})
       ELSE IF verdict.tag # "Ok"
       THEN Invalid(Failed, verdict) /\ Sent({})
       ELSE IF leave_type_str \notin LeaveTypes
       THEN Refuse(Failed) /\ Sent({})
       ELSE \E save \in D :
            IF save # "ok" THEN Rollback(requests, audit, Failed) /\ Sent({})
            ELSE \E log \in D :
            IF log # "ok"
            THEN Rollback([requests EXCEPT ![id] = Row], audit, Failed) /\ Sent({})
            ELSE \E n \in thread_note(r, O) :
                 IF n.halt THEN Stop(n.msgs) ELSE Edit(n.msgs)

(***************************************************************************)
(* handle_button_actions: the buttons of the approval prompt.  The prompt  *)
(* is shown in the channel stored on the request: the direct-message       *)
(* channel of the manager, or the fallback channel that every user reads.  *)
(***************************************************************************)
ActionIds == {"approve_leave", "reject_leave", "view_overlapping_leave"}

Readers(channel) == IF channel = SLACK_REQUEST_CHANNEL THEN Users ELSE {channel}

decided_status(action_id) ==
    IF action_id = "approve_leave" THEN STATUS_APPROVED ELSE STATUS_REJECTED

decided_row_without_approver(r, action_id, manager) ==
    [r EXCEPT !.status = decided_status(action_id)]

decided_row(r, action_id, manager) ==
    [r EXCEPT !.status = decided_status(action_id), !.approver = manager]

announces(r, action_id) ==
    action_id = "approve_leave" /\ r.leave_type \notin {"Unplanned", "Emergency"}

(***************************************************************************)
(* post_public_announcement: no employee has a team, so the channel is the *)
(* common one.                                                             *)
(***************************************************************************)
announcement_channel(employee) == request_channel

handle_button_actions(user, id, action_id, O, D) ==
    LET r == requests[id]
        Failed == Call(action_id, id, user, r.status, "Error", "error_body", FALSE, FALSE)
        Row == decided_row(r, action_id, user)
        Decided(ok) ==
            Commit([requests EXCEPT ![id] = Row],
                   [audit EXCEPT ![id] = audit_create(@, AuditRow(Row.status, user))],
                   Call(action_id, id, user, r.status, IF ok THEN "Done" ELSE "Error",
                        IF ok THEN "200" ELSE "error_body", TRUE, TRUE))
        Stop(msgs) == Decided(FALSE) /\ Sent(msgs)
        Notify(msgs) ==
            \E notify \in O :
                /\ Decided(notify # "exception")
                /\ Sent(msgs \cup Delivered(notify, Msg("employee_dm", r.employee)))
        Save(msgs) ==
            \E save \in D :
            IF save # "ok" THEN Rollback(requests, audit, Failed) /\ Sent(msgs)
            ELSE \E log \in D :
            IF log # "ok"
            THEN Rollback([requests EXCEPT ![id] = Row], audit, Failed) /\ Sent(msgs)
            ELSE \E u \in update_approval_message(Row, O) :
                 IF u.halt THEN Stop(msgs \cup u.msgs) ELSE Notify(msgs \cup u.msgs)
    IN
    /\ id \in Ids
    /\ HasHandle(r)
    /\ user \in Readers(r.slack_channel_id)
    /\ UNCHANGED <<request_channel, inbound, sessions, today, employees, reminders>>
    /\ form' = NoForm
    /\ IF user \notin employees
       THEN Refuse(Failed) /\ Sent({}) /\ UNCHANGED announced
       ELSE IF action_id = "view_overlapping_leave"
       THEN \E calendar \in O :
            /\ Refuse([Failed EXCEPT
                          !.result = IF calendar = "ok" THEN "Shown" ELSE "Error",
                          !.response = IF calendar = "ok" THEN "200" ELSE "error_body"])
            /\ Sent(Delivered(calendar, Msg("calendar", user)))
            /\ UNCHANGED announced
       ELSE IF ~IsPending(r)
       THEN \E notice \in O :
            /\ Refuse([Failed EXCEPT !.result = "Conflict",
                                     !.response = IF notice = "ok" THEN "200"
                                                  ELSE "error_body"])
            /\ Sent(Delivered(notice, Msg("conflict_notice", user)))
            /\ UNCHANGED announced
       ELSE IF announces(r, action_id) /\ announcement_channel(r.employee) # ""
       THEN \E announce \in O :
            IF announce = "exception"
            THEN Refuse(Failed) /\ Sent({}) /\ UNCHANGED announced
            ELSE IF announce = "api_error"
            THEN Save({}) /\ UNCHANGED announced
            ELSE /\ announced' = announced (+) SetToBag({id})
                 /\ Save({Msg("announcement", announcement_channel(r.employee))})
       ELSE Save({}) /\ UNCHANGED announced

(***************************************************************************)
(* send_manager_reminder: one execution of a queued reminder task.  The    *)
(* task reads the request and posts to the manager when the request is     *)
(* pending; any exception asks the broker for a retry, which it grants     *)
(* max_retries times.                                                      *)
(***************************************************************************)
retry_without_count(t) == reminders

retry(t) ==
    IF t.retries < MaxRetries
    THEN (reminders (-) SetToBag({t})) (+) SetToBag({[t EXCEPT !.retries = @ + 1]})
    ELSE reminders (-) SetToBag({t})

reminder_due_without_manager(r) == IsPending(r)

reminder_due(r) == IsPending(r) /\ Manager(r.employee) # ""

send_manager_reminder(t, O, D) ==
    LET found == t.id \in Ids
        r == requests[t.id]
        Ran(result) == Call("reminder", t.id, "", IF found THEN r.status ELSE "none",
                            result, "none", FALSE, FALSE)
    IN
    /\ BagIn(t, reminders)
    /\ UNCHANGED <<request_channel, inbound, sessions, today, employees, requests, audit, announced>>
    /\ form' = NoForm
    /\ \E read \in D :
       IF read # "ok"
       THEN reminders' = retry(t) /\ last' = Ran("ReadFailed") /\ Sent({})
       ELSE IF ~found
       THEN reminders' = reminders (-) SetToBag({t}) /\ last' = Ran("NotFound") /\ Sent({})
       ELSE IF ~reminder_due(r)
       THEN reminders' = reminders (-) SetToBag({t}) /\ last' = Ran("Skipped") /\ Sent({})
       ELSE \E send \in O :
            IF send = "ok"
            THEN /\ reminders' = reminders (-) SetToBag({t})
                 /\ last' = Ran("Done")
                 /\ Sent({Msg("reminder", Manager(r.employee))})
            ELSE reminders' = retry(t) /\ last' = Ran("Retry") /\ Sent({})

(***************************************************************************)
(* The clock.                                                              *)
(***************************************************************************)
ClockDays == {31, 32}

AdvanceDay ==
    /\ today + 1 \in ClockDays
    /\ today' = today + 1
    /\ last' = NoCall
    /\ form' = NoForm
    /\ outbox' = {}
    /\ UNCHANGED <<request_channel, inbound, sessions, employees, requests, audit, reminders, announced>>

(***************************************************************************)
(* The lifecycle specification: forms and button clicks arrive in any      *)
(* order.  An update or cancel form names a request that was pending when  *)
(* the form was opened (slash_command lists the pending requests only),    *)
(* and may be submitted at any later time.                                 *)
(***************************************************************************)
Dates == {31, 35, 36}

Start ==
    /\ today = 31
    /\ employees = Users
    /\ requests = <<>>
    /\ audit = <<>>
    /\ reminders = EmptyBag
    /\ announced = EmptyBag
    /\ outbox = {}
    /\ form = NoForm
    /\ inbound = NoRequest
    /\ sessions = NoSessions
    /\ last = NoCall

Init == request_channel = SLACK_REQUEST_CHANNEL /\ Start

(***************************************************************************)
(* A form may name a request id that the table does not hold, and a create *)
(* form may come from a Slack user who has no Employee row; such a form is *)
(* answered before its dates are looked at, and is submitted for today.    *)
(***************************************************************************)
MissingId == Len(requests) + 1

Strangers == {"X"}

Create(O, D) ==
    /\ Len(requests) < MaxRequests
    /\ BagCardinality(reminders) < MaxTasks
    /\ \/ \E user \in Users, start_date \in Dates, end_date \in Dates,
             leave_type_str \in TypeStrings, reason \in Reasons :
            handle_modal_submission(user, start_date, end_date, leave_type_str, reason, O, D)
       \/ \E user \in Strangers, leave_type_str \in LeaveTypes, reason \in Reasons :
            handle_modal_submission(user, today, today, leave_type_str, reason, O, D)

Update(O, D) ==
    \/ \E id \in {i \in Ids : Len(audit[i]) < MaxTrail}, start_date \in Dates,
          end_date \in Dates, leave_type_str \in TypeStrings, reason \in Reasons :
        handle_update_submission(id, start_date, end_date, leave_type_str, reason, O, D)
    \/ \E leave_type_str \in LeaveTypes, reason \in Reasons :
        handle_update_submission(MissingId, today, today, leave_type_str, reason, O, D)

Cancel(O, D) ==
    \E id \in {i \in Ids : Len(audit[i]) < MaxTrail} \cup {MissingId} :
        handle_cancel_submission(id, O, D)

Button(O, D) ==
    \E user \in Users, id \in {i \in Ids : Len(audit[i]) < MaxTrail},
       action_id \in ActionIds :
        /\ CopiesIn(id, announced) < MaxAnnouncements
        /\ handle_button_actions(user, id, action_id, O, D)

Reminder(O, D) ==
    \E t \in BagToSet(reminders) : send_manager_reminder(t, O, D)

Next ==
    \/ Create(SlackAnswers, StorageWorks)
    \/ Update(SlackAnswers, StorageWorks)
    \/ Cancel(SlackAnswers, StorageWorks)
    \/ Button(SlackAnswers, StorageWorks)
    \/ Reminder(SlackAnswers, StorageWorks)
    \/ AdvanceDay

Spec == Init /\ [][Next]_vars

(***************************************************************************)
(* The same handlers in an environment where any Slack call, any storage   *)
(* write and the task broker may raise.                                    *)
(***************************************************************************)
NextFault ==
    \/ Create(SlackFailures, StorageFailures)
    \/ Update(SlackFailures, StorageFailures)
    \/ Cancel(SlackFailures, StorageFailures)
    \/ Button(SlackFailures, StorageFailures)
    \/ Reminder(SlackFailures, StorageFailures)
    \/ AdvanceDay

SpecFault == Init /\ [][NextFault]_vars

(***************************************************************************)
(* The same handlers when every Slack call, storage write and broker call  *)
(* succeeds.                                                               *)
(***************************************************************************)
NextNominal ==
    \/ Create(SlackWorks, StorageWorks)
    \/ Update(SlackWorks, StorageWorks)
    \/ Cancel(SlackWorks, StorageWorks)
    \/ Button(SlackWorks, StorageWorks)
    \/ Reminder(SlackWorks, StorageWorks)
    \/ AdvanceDay

SpecNominal == Init /\ [][NextNominal]_vars

(***************************************************************************)
(* The same handlers during a Slack outage: any Slack call may answer an   *)
(* error or raise, while storage and the task broker work.                 *)
(***************************************************************************)
NextOutage ==
    \/ Create(SlackFailures, StorageWorks)
    \/ Update(SlackFailures, StorageWorks)
    \/ Cancel(SlackFailures, StorageWorks)
    \/ Button(SlackFailures, StorageWorks)
    \/ Reminder(SlackFailures, StorageWorks)
    \/ AdvanceDay

SpecOutage == Init /\ [][NextOutage]_vars

(***************************************************************************)
(* The two webhook endpoints.  A request carries or lacks each signature   *)
(* header; age is the number of seconds between its timestamp and the      *)
(* server's clock; the signing secret is set or not in the environment.    *)
(* views.py imports verify_slack_request from utils.py, which defines      *)
(* slack_verification_required only: importing the views module, which the *)
(* URL configuration does to route any request, raises ImportError, and    *)
(* the server answers 500 before slash_command or interactions is entered. *)
(***************************************************************************)
Ages == {-301, -300, 0, 300, 301}

HttpRequests ==
    [endpoint : {"slash_command", "interactions"}, has_signature : BOOLEAN,
     has_timestamp : BOOLEAN, age : Ages, secret_set : BOOLEAN,
     signature_matches : BOOLEAN]

utils_names == {"slack_verification_required"}

views_imports_from_utils == {"verify_slack_request"}

views_module_loads == views_imports_from_utils \subseteq utils_names

route(request) ==
    /\ inbound' = request
    /\ form' = NoForm
    /\ Sent({})
    /\ UNCHANGED <<request_channel, sessions, today, employees, reminders, announced>>
    /\ IF ~views_module_loads
       THEN Refuse(Call(request.endpoint, 0, "", "none", "ImportError", "500",
                        FALSE, FALSE))
       ELSE Refuse(Call(request.endpoint, 0, "", "none", "Routed", "200",
                        FALSE, FALSE))

slash_command == \E request \in HttpRequests :
    request.endpoint = "slash_command" /\ route(request)

interactions == \E request \in HttpRequests :
    request.endpoint = "interactions" /\ route(request)

(***************************************************************************)
(* The handlers during a Slack outage, in a deployment that has the        *)
(* fallback channel configured or not.                                     *)
(***************************************************************************)
InitDestination == request_channel \in {SLACK_REQUEST_CHANNEL, ""} /\ Start

SpecDestination == InitDestination /\ [][NextOutage]_vars

NextWebhook == slash_command \/ interactions

SpecWebhook == Init /\ [][NextWebhook]_vars

(***************************************************************************)
(* Validation on its own: one create or update form, drawn from a wider    *)
(* set of dates, is submitted against a table that holds nothing or one    *)
(* row.  A drawn row is one the handlers can have stored by the day the    *)
(* form is submitted: its range has between one business day and the       *)
(* allowance, an unplanned row does not start after today, a decided row   *)
(* names the reader of its prompt who decided it, and its reminder task    *)
(* has run or is still queued.                                             *)
(***************************************************************************)
FormDates == {0, 1, 27, 30, 31, 33, 34, 35, 36}
StoredRanges == {<<30, 30>>, <<30, 31>>, <<31, 31>>, <<36, 36>>}

StoredRow(employee, leave_type, range, status) ==
    [NewRequest(employee, leave_type, range[1], range[2], "trip")
        EXCEPT !.status = status,
               !.approver = IF status \in {STATUS_APPROVED, STATUS_REJECTED}
                            THEN "M" ELSE "",
               !.slack_channel_id = destination_channel(employee),
               !.slack_message_ts = 1]

StoredTrail(r) ==
    <<AuditRow("created", r.employee)>>
    \o (IF r.status = STATUS_PENDING THEN <<>>
        ELSE <<AuditRow(r.status,
                        IF r.status = STATUS_CANCELLED THEN r.employee ELSE r.approver)>>)

StoredRows ==
    {StoredRow(employee, leave_type, range, status) :
        employee \in Users, leave_type \in LeaveTypes,
        range \in StoredRanges, status \in Statuses}

InitValidate ==
    /\ request_channel = SLACK_REQUEST_CHANNEL
    /\ today = 31
    /\ employees = Users
    /\ \/ requests = <<>> /\ audit = <<>> /\ reminders = EmptyBag
       \/ \E r \in StoredRows :
            /\ is_unplanned(r.leave_type) => r.start_date <= today
            /\ requests = <<r>>
            /\ audit = <<StoredTrail(r)>>
            /\ reminders \in {EmptyBag, SetToBag({Task(1)})}
    /\ announced = EmptyBag
    /\ outbox = {}
    /\ \E user \in Users, id \in {0} \cup Ids, start_date \in FormDates,
          end_date \in FormDates, leave_type \in TypeStrings :
            /\ id # 0 => user = requests[id].employee
            /\ form = [user |-> user, id |-> id, start_date |-> start_date,
                       end_date |-> end_date, leave_type |-> leave_type]
    /\ inbound = NoRequest
    /\ sessions = NoSessions
    /\ last = NoCall

SubmitNew ==
    /\ last = NoCall
    /\ form.id = 0
    /\ handle_modal_submission(form.user, form.start_date, form.end_date,
                               form.leave_type, "trip", SlackAnswers, StorageWorks)

SubmitEdit ==
    /\ last = NoCall
    /\ form.id # 0
    /\ handle_update_submission(form.id, form.start_date, form.end_date,
                                form.leave_type, "trip", SlackAnswers, StorageWorks)

NextValidate == SubmitNew \/ SubmitEdit

SpecValidate == InitValidate /\ [][NextValidate]_vars

(***************************************************************************)
(* The ledger of an employee: sequences of create, update, cancel and      *)
(* decide calls that all run to completion, over a table that may hold     *)
(* more than one request.  An update form keeps the leave type of the     *)
(* request and changes its dates.                                          *)
(***************************************************************************)
MaxLedger == 2

LedgerCreate ==
    /\ Len(requests) < MaxLedger
    /\ \E user \in Users, start_date \in Dates, end_date \in Dates,
          leave_type_str \in LeaveTypes :
        handle_modal_submission(user, start_date, end_date, leave_type_str, "trip",
                                SlackWorks, StorageWorks)

LedgerUpdate ==
    \E id \in {i \in Ids : Len(audit[i]) < MaxTrail}, start_date \in Dates,
       end_date \in Dates :
        handle_update_submission(id, start_date, end_date, requests[id].leave_type,
                                 "trip", SlackWorks, StorageWorks)

LedgerCancel ==
    \E id \in {i \in Ids : Len(audit[i]) < MaxTrail} :
        handle_cancel_submission(id, SlackWorks, StorageWorks)

LedgerDecide ==
    \E user \in Users, id \in {i \in Ids : Len(audit[i]) < MaxTrail},
       action_id \in {"approve_leave", "reject_leave"} :
        /\ CopiesIn(id, announced) < MaxAnnouncements
        /\ handle_button_actions(user, id, action_id, SlackWorks, StorageWorks)

NextLedger == LedgerCreate \/ LedgerUpdate \/ LedgerCancel \/ LedgerDecide

SpecLedger == Init /\ [][NextLedger]_vars

(***************************************************************************)
(* Two submissions processed at the same time.  DATABASES selects the      *)
(* sqlite3 engine, and atomic() opens a deferred transaction: the first    *)
(* SELECT takes a SHARED lock that is kept until the transaction ends, the *)
(* first write needs the RESERVED lock, which one connection at a time can *)
(* hold and which a connection that already reads is refused at once       *)
(* ("database is locked"), and the commit needs the EXCLUSIVE lock, which  *)
(* is granted once no other connection holds any lock and is given up      *)
(* with an error when the wait times out.                                  *)
(***************************************************************************)
RECURSIVE AuditRows(_)
AuditRows(trails) ==
    IF trails = <<>> THEN 0 ELSE Len(Head(trails)) + AuditRows(Tail(trails))

lock_granted_to_all(c, lock) == TRUE

lock_granted(c, lock) ==
    IF lock = "SHARED" THEN \A d \in Connections \ {c} : sessions[d].lock # "EXCLUSIVE"
    ELSE IF lock = "RESERVED"
    THEN \A d \in Connections \ {c} : sessions[d].lock \notin {"RESERVED", "EXCLUSIVE"}
    ELSE \A d \in Connections \ {c} : sessions[d].lock = "NONE"

OpOf(f) == IF f.id = 0 THEN "create" ELSE "update"

(* The transaction starts with the handler's reads: the lookups and         *)
(* validate_leave_request.  A rejected form ends the transaction.           *)
begin(c, user, id, start_date, end_date, leave_type_str) ==
    LET verdict == validate_leave_request(user, start_date, end_date, leave_type_str, id)
        f == Form(user, id, start_date, end_date, leave_type_str)
        pre == IF id = 0 THEN "none" ELSE requests[id].status
        started == [Idle EXCEPT !.form = f, !.seen = AuditRows(audit),
                                !.row = IF id = 0 THEN Idle.row ELSE requests[id]]
    IN
    /\ sessions[c].phase = "idle"
    /\ lock_granted(c, "SHARED")
    /\ id # 0 => user = requests[id].employee
    /\ form' = f
    /\ Sent({})
    /\ UNCHANGED <<request_channel, inbound, today, employees, requests, audit,
                   reminders, announced>>
    /\ IF verdict.tag # "Ok"
       THEN /\ sessions' = [sessions EXCEPT ![c] = Done]
            /\ last' = [Call(OpOf(f), id, user, pre, verdict.tag, "errors", FALSE, FALSE)
                           EXCEPT !.remaining = verdict.remaining]
       ELSE /\ sessions' = [sessions EXCEPT ![c] =
                               [started EXCEPT !.phase = "validated", !.lock = "SHARED"]]
            /\ UNCHANGED last

(* The handler's writes and what follows them inside the transaction: the   *)
(* row and its audit row, the reminder task and the Slack calls.  A refused *)
(* RESERVED lock raises OperationalError in the first write; the handler's  *)
(* except clause answers and the transaction is rolled back.                *)
write(c) ==
    LET s == sessions[c]
        f == s.form
        id == IF f.id = 0 THEN Len(requests) + 1 ELSE f.id
        sent == destination_channel(f.user) # ""
        Row == IF f.id = 0
               THEN created_row(f.user, f.leave_type, f.start_date, f.end_date, "trip",
                                id, sent)
               ELSE updated_row(s.row, f.start_date, f.end_date, f.leave_type, "trip")
        confirm == {Msg("employee_dm", f.user)}
        Written(answer) ==
            sessions' = [sessions EXCEPT ![c] = [s EXCEPT !.phase = "written",
                                                          !.lock = "RESERVED",
                                                          !.row = Row, !.answer = answer]]
    IN
    /\ s.phase = "validated"
    /\ UNCHANGED <<request_channel, inbound, today, employees, requests, audit, announced>>
    /\ form' = f
    /\ IF ~lock_granted(c, "RESERVED")
       THEN /\ sessions' = [sessions EXCEPT ![c] = Done]
            /\ last' = Call(OpOf(f), f.id, f.user, IF f.id = 0 THEN "none" ELSE s.row.status,
                            "Locked", "errors", FALSE, FALSE)
            /\ Sent({}) /\ UNCHANGED reminders
       ELSE /\ UNCHANGED last
            /\ IF f.id = 0
               THEN /\ reminders' = apply_async(id)
                    /\ Written("200")
                    /\ Sent((IF sent THEN {Msg("prompt", destination_channel(f.user))}
                                     ELSE {}) \cup confirm)
               ELSE /\ UNCHANGED reminders
                    /\ \E n \in thread_note(s.row, SlackWorks),
                          u \in update_approval_message(Row, SlackWorks) :
                        IF n.halt THEN Written("errors") /\ Sent(n.msgs)
                        ELSE IF u.halt THEN Written("errors") /\ Sent(n.msgs \cup u.msgs)
                        ELSE Written("200") /\ Sent(n.msgs \cup u.msgs \cup confirm)

(* The end of the atomic block: COMMIT.  When the EXCLUSIVE lock is not     *)
(* granted in time the commit raises outside the handler's try block and    *)
(* the transaction is rolled back.                                          *)
commit(c) ==
    LET s == sessions[c]
        f == s.form
        pre == IF f.id = 0 THEN "none" ELSE s.row.status
    IN
    /\ s.phase = "written"
    /\ Sent({})
    /\ UNCHANGED <<request_channel, inbound, today, employees, reminders, announced>>
    /\ form' = f
    /\ sessions' = [sessions EXCEPT ![c] = Done]
    /\ IF ~lock_granted(c, "EXCLUSIVE")
       THEN Rollback(requests, audit,
                     Call(OpOf(f), f.id, f.user, pre, "Locked", "500", FALSE, FALSE))
       ELSE
            /\ IF f.id = 0
               THEN Commit(Append(requests, s.row),
                           Append(audit, <<AuditRow("created", f.user)>>),
                           Call("create", Len(requests) + 1, f.user, pre,
                                "Done", s.answer, TRUE, TRUE))
               ELSE Commit([requests EXCEPT ![f.id] = s.row],
                           [audit EXCEPT ![f.id] =
                               audit_create(@, AuditRow("updated", f.user))],
                           Call("update", f.id, f.user, pre,
                                IF s.answer = "200" THEN "Done" ELSE "Error",
                                s.answer, TRUE, TRUE))

Begin ==
    \E c \in Connections, user \in Users, id \in {0} \cup Ids, start_date \in Dates,
       end_date \in Dates, leave_type_str \in {"Vacation"} :
        begin(c, user, id, start_date, end_date, leave_type_str)

Write == \E c \in Connections : write(c)

CommitTransaction == \E c \in Connections : commit(c)

NextConcurrent == Begin \/ Write \/ CommitTransaction

(* Each connection processes one submission, against a table that holds   *)
(* nothing or one pending request whose prompt was sent and whose reminder *)
(* is queued.                                                              *)
InitConcurrent ==
    /\ request_channel = SLACK_REQUEST_CHANNEL
    /\ today = 31
    /\ employees = Users
    /\ \/ requests = <<>> /\ audit = <<>> /\ reminders = EmptyBag
       \/ \E employee \in Users, range \in {<<31, 31>>, <<36, 36>>} :
            LET r == StoredRow(employee, "Vacation", range, STATUS_PENDING)
            IN  /\ requests = <<r>>
                /\ audit = <<StoredTrail(r)>>
                /\ reminders = SetToBag({Task(1)})
    /\ announced = EmptyBag
    /\ outbox = {}
    /\ form = NoForm
    /\ inbound = NoRequest
    /\ sessions = NoSessions
    /\ last = NoCall

SpecConcurrent == InitConcurrent /\ [][NextConcurrent]_vars

(***************************************************************************)
(* Properties.                                                             *)
(***************************************************************************)
Deciders == {"approve_leave", "reject_leave"}
Writers == {"update", "cancel"} \cup Deciders
Submissions == {"create", "update"}

NewIds == 1..Len(requests')
Trail(i) == IF i \in Ids THEN audit[i] ELSE <<>>
LastRow(trail) == trail[Len(trail)]

NonWorking(s, e) ==
    s <= e /\ \A d \in s..e : Weekday(d) >= 5 \/ d \in Holidays

(* C1: terminal states are absorbing: once the stored status of a request  *)
(* is approved, rejected or cancelled, no step (create, update, cancel,    *)
(* approve or reject button, reminder task, clock) changes that status or  *)
(* removes the request, also when Slack, storage or the broker fail.       *)
C1_TerminalAbsorbing ==
    [][\A i \in Ids :
          requests[i].status \in Terminal
              => i \in NewIds /\ requests'[i].status = requests[i].status]_vars

C1_Witness ==
    /\ last.op \in Writers \cup {"reminder"}
    /\ last.id \in Ids
    /\ last.pre \in Terminal
    /\ requests[last.id].status = last.pre

(* C2: when a handler (update, cancel, approve, reject) has mutated a      *)
(* pending request, the next of these handlers processed for the same      *)
(* request answers Conflict and writes neither the request nor an audit    *)
(* row.  A payload carries only the request id and the handler reads the   *)
(* stored row when it runs, so a handler that was submitted concurrently   *)
(* with the first and serialized after it is the next step for that id.    *)
C2_SecondWriterConflicts ==
    [][(/\ last.op \in Writers
        /\ last.pre = STATUS_PENDING
        /\ last.wrote
        /\ last'.op \in Writers
        /\ last'.id = last.id)
          => /\ last'.result = "Conflict"
             /\ requests' = requests
             /\ audit' = audit]_vars

(* C3: an update submission for a request whose status is approved,        *)
(* rejected or cancelled answers Conflict, changes no field of the request *)
(* and appends no audit row.                                               *)
C3_UpdateOnlyWhilePending ==
    (last.op = "update" /\ last.pre \in Terminal)
        => last.result = "Conflict" /\ ~last.wrote /\ ~last.audited

(* C4: approve or reject on a request that is no longer pending answers    *)
(* Conflict, every time, and leaves the request (status and approver       *)
(* included) and the audit trail exactly as they were.                     *)
C4_DecideIdempotent ==
    [][(/\ last'.op \in Deciders
        /\ last'.id \in Ids
        /\ requests[last'.id].status \in Terminal)
          => /\ last'.result = "Conflict"
             /\ requests' = requests
             /\ audit' = audit]_vars

C4_Witness ==
    /\ last.op \in Deciders
    /\ last.pre \in {STATUS_APPROVED, STATUS_REJECTED}
    /\ last.result = "Conflict"
    /\ requests[last.id].status = last.pre

(* C5: cancel on a pending request sets the status to cancelled, changes   *)
(* no other field, and appends exactly one audit row, with action          *)
(* "cancelled" and the request's own employee as actor; cancel on a        *)
(* non-pending request changes neither the requests nor the audit trail.   *)
C5_Cancel ==
    [][last'.op = "cancel" =>
          LET i == last'.id
          IN  IF i \in Ids /\ requests[i].status = STATUS_PENDING
              THEN /\ requests' = [requests EXCEPT ![i].status = STATUS_CANCELLED]
                   /\ audit' = [audit EXCEPT ![i] =
                          Append(@, [action |-> "cancelled",
                                     performed_by |-> requests[i].employee])]
              ELSE requests' = requests /\ audit' = audit]_vars

C5_Witness ==
    /\ last.op = "cancel"
    /\ last.pre = STATUS_PENDING
    /\ requests[last.id].status = STATUS_CANCELLED
    /\ LastRow(audit[last.id]).action = "cancelled"

(* C6: approve (reject) on a pending request sets the status to approved   *)
(* (rejected), sets the approver to the user who clicked, changes no other *)
(* field, and appends exactly one audit row whose action is the outcome    *)
(* and whose actor is that approver.                                       *)
C6_Decide ==
    [][(/\ last'.op \in Deciders
        /\ last'.id \in Ids
        /\ requests[last'.id].status = STATUS_PENDING)
          => LET i == last'.id
                 outcome == IF last'.op = "approve_leave" THEN STATUS_APPROVED
                            ELSE STATUS_REJECTED
             IN  /\ requests' = [requests EXCEPT ![i].status = outcome,
                                                 ![i].approver = last'.user]
                 /\ audit' = [audit EXCEPT ![i] =
                        Append(@, [action |-> outcome,
                                   performed_by |-> requests'[i].approver])]]_vars

C6_Witness ==
    /\ last.op = "reject_leave"
    /\ last.pre = STATUS_PENDING
    /\ requests[last.id].status = STATUS_REJECTED
    /\ requests[last.id].approver = last.user

C8_AtomicWithAudit ==
    [][LET changed == {i \in NewIds : i \notin Ids \/ requests'[i] # requests[i]}
           grown == {i \in 1..Len(audit') : audit'[i] # Trail(i)}
       IN  /\ Len(audit') = Len(requests')
           /\ changed \subseteq grown
           /\ \A i \in grown :
                LET row == LastRow(audit'[i])
                IN  /\ audit'[i] = Append(Trail(i), row)
                    /\ last'.wrote /\ last'.id = i
                    /\ row.action = "created" =>
                          i \notin Ids /\ requests'[i].status = STATUS_PENDING
                    /\ row.action = "updated" =>
                          i \in Ids /\ last'.op = "update"
                    /\ row.action \in Terminal =>
                          /\ i \in Ids
                          /\ requests[i].status = STATUS_PENDING
                          /\ requests'[i].status = row.action
                    /\ row.action \in {"created", "updated"} \cup Terminal]_vars

C8_Witness ==
    /\ last.op \in Writers \cup {"create"}
    /\ last.result = "Error"
    /\ last.wrote
    /\ last.audited

(* C9: a submitted form (new or edited request) whose start date is after  *)
(* its end date is rejected with InvalidRange, whatever the leave type and *)
(* whether the start date is in the past or in the future.                 *)
C9_InvalidRangeFirst ==
    (last.op \in Submissions /\ form.start_date > form.end_date)
        => last.result = "InvalidRange"

(* C10: for every range start..end made only of Saturdays, Sundays and     *)
(* listed holidays the business-day count is 0 and the submission is       *)
(* rejected without a write: with PastDate when the start date fails the   *)
(* past-date rule of its leave type, with NonWorkingRange otherwise; and   *)
(* no stored request has zero working days.                                *)
C10_NonWorkingRejected ==
    /\ (last.op \in Submissions /\ NonWorking(form.start_date, form.end_date))
          => /\ CountBusinessDays(form.start_date, form.end_date, Holidays) = 0
             /\ ~last.wrote
             /\ last.result =
                  IF (form.leave_type \in {"Unplanned", "Emergency"}
                        /\ (form.start_date > today \/ form.start_date < today - 30))
                     \/ (form.leave_type \notin {"Unplanned", "Emergency"}
                        /\ form.start_date < today)
                  THEN "PastDate" ELSE "NonWorkingRange"
    /\ \A i \in Ids :
          CountBusinessDays(requests[i].start_date, requests[i].end_date, Holidays) > 0

C10_Witness ==
    /\ last.op \in Submissions
    /\ NonWorking(form.start_date, form.end_date)
    /\ form.start_date < form.end_date
    /\ last.result = "NonWorkingRange"

(* C10 as stated: every such range is rejected with NonWorkingRange.       *)
C10_AlwaysNonWorkingRange ==
    (last.op \in Submissions /\ NonWorking(form.start_date, form.end_date))
        => last.result = "NonWorkingRange"

(***************************************************************************)
(* Properties of validation, stated on the state after the submission:     *)
(* the rows other than the submitted one are the rows validation read.     *)
(***************************************************************************)
EarlierRules == {"PastDate", "InvalidRange", "NonWorkingRange", "Overlap"}

BusinessDays(s, e) == CountBusinessDays(s, e, Holidays)

Others == {i \in Ids : i # form.id /\ (last.op = "create" => i # last.id)}

Counted ==
    {i \in Others : /\ requests[i].employee = form.user
                    /\ requests[i].status \in {STATUS_PENDING, STATUS_APPROVED}}

RECURSIVE SumBusinessDays(_)
SumBusinessDays(S) ==
    IF S = {} THEN 0
    ELSE LET i == CHOOSE j \in S : TRUE
         IN  BusinessDays(requests[i].start_date, requests[i].end_date)
             + SumBusinessDays(S \ {i})

Balance ==
    monthly_leave_allowance(form.user)
    - SumBusinessDays({i \in Counted :
                          MonthOf(requests[i].start_date) = MonthOf(form.start_date)})

(* C11: a submission that reaches the allowance rule is rejected by it     *)
(* exactly when its business days exceed the allowance minus the business  *)
(* days of the employee's other pending or approved requests that start in *)
(* the same month (the edited request excluded); the rejection reports     *)
(* exactly that difference and writes nothing.                             *)
C11_AllowanceRule ==
    (last.op \in Submissions /\ last.result \notin EarlierRules)
        => /\ last.result = "AllowanceExceeded"
                <=> BusinessDays(form.start_date, form.end_date) > Balance
           /\ last.result = "AllowanceExceeded"
                => last.remaining = Balance /\ ~last.wrote

C11_Witness ==
    /\ last.op = "update"
    /\ last.result = "AllowanceExceeded"
    /\ last.remaining = 2
    /\ requests[form.id].status = STATUS_PENDING
    /\ BusinessDays(form.start_date, form.end_date) = 3

Sharing ==
    {i \in Counted : \E d \in form.start_date..form.end_date :
                        requests[i].start_date <= d /\ d <= requests[i].end_date}

(* C12: a submission that passes the past-date, range and working-day      *)
(* rules is rejected with Overlap exactly when its range shares at least   *)
(* one day, be it only the first or the last, with another pending or      *)
(* approved request of the same employee (cancelled and rejected requests  *)
(* and the edited request do not count); a submission that shares a day is *)
(* never written, whichever rule rejects it.                               *)
C12_OverlapInclusive ==
    /\ (last.op \in Submissions
          /\ last.result \notin {"PastDate", "InvalidRange", "NonWorkingRange"})
          => (last.result = "Overlap" <=> Sharing # {})
    /\ (last.op \in Submissions /\ Sharing # {})
          => ~last.wrote /\ last.result \in EarlierRules

C12_Witness ==
    /\ last.op \in Submissions
    /\ last.result = "Overlap"
    /\ form.start_date < form.end_date
    /\ \E i \in Sharing : /\ requests[i].start_date < requests[i].end_date
                          /\ requests[i].end_date = form.start_date

(* C12 as stated: every submission that shares a day with another pending  *)
(* or approved request of the employee is rejected with Overlap.           *)
C12_SharingAlwaysOverlap ==
    (last.op \in Submissions /\ Sharing # {}) => last.result = "Overlap"

Retrospective == {"Unplanned", "Emergency"}

(* C13: the past-date rule accepts the start date of an ordinary leave     *)
(* type exactly when start >= today, and of a retrospective type           *)
(* (Unplanned, Emergency) exactly when today - 30 <= start <= today; a     *)
(* start date equal to today is accepted for both kinds.                   *)
C13_PastDatePolicy ==
    last.op \in Submissions
        => /\ last.result # "PastDate"
                <=> IF form.leave_type \in Retrospective
                    THEN today - 30 <= form.start_date /\ form.start_date <= today
                    ELSE form.start_date >= today
           /\ form.start_date = today => last.result # "PastDate"

C13_Witness ==
    /\ last.op \in Submissions
    /\ form.leave_type \in Retrospective
    /\ form.start_date = today - 30
    /\ last.result \notin EarlierRules
    /\ last.wrote

ValidationRules == EarlierRules \cup {"AllowanceExceeded"}

(* C14: a create or update submission that fails a validation rule changes *)
(* nothing: the requests and their fields, the audit trails, the queued    *)
(* reminder tasks and the announcements are as before, and no message is   *)
(* sent.                                                                   *)
C14_ValidationNoSideEffects ==
    [][(last'.op \in Submissions /\ last'.result \in ValidationRules)
          => /\ requests' = requests
             /\ audit' = audit
             /\ reminders' = reminders
             /\ announced' = announced
             /\ outbox' = {}]_vars

C14_Witness ==
    /\ last.op = "create"
    /\ last.result = "Overlap"
    /\ reminders # EmptyBag
    /\ ~last.wrote

Kinds(msgs, kind) == {m \in msgs : m.kind = kind}

TasksFor(bag, i) == {t \in BagToSet(bag) : t.id = i}

(* C16: when Slack, storage and the broker work, a create that passes      *)
(* validation, by an employee who has a manager, stores a new pending      *)
(* request with exactly one audit row "created", sends exactly one         *)
(* approval prompt, to the manager, stores its channel and message id on   *)
(* the request, and queues exactly one reminder task for the new id.       *)
C16_ValidCreate ==
    [][(/\ last'.op = "create"
        /\ last'.result \notin ValidationRules \cup {"NotFound"}
        /\ Manager(form'.user) # "")
          => LET i == Len(requests) + 1
             IN  /\ Len(requests') = i
                 /\ requests'[i].status = STATUS_PENDING
                 /\ requests'[i].employee = form'.user
                 /\ audit'[i] = << [action |-> "created", performed_by |-> form'.user] >>
                 /\ Kinds(outbox', "prompt")
                      = {[kind |-> "prompt", channel |-> Manager(form'.user)]}
                 /\ requests'[i].slack_channel_id = Manager(form'.user)
                 /\ requests'[i].slack_message_ts # 0
                 /\ reminders' = reminders (+) SetToBag({[id |-> i, retries |-> 0]})
                 /\ \A t \in TasksFor(reminders', i) : CopiesIn(t, reminders') = 1
                 /\ Cardinality(TasksFor(reminders', i)) = 1]_vars

C16_Witness ==
    /\ last.op = "create"
    /\ last.result = "Done"
    /\ Manager(last.user) # ""
    /\ requests[last.id].slack_channel_id = Manager(last.user)
    /\ Kinds(outbox, "prompt") # {}
    /\ TasksFor(reminders, last.id) # {}

(* C17: when Slack and storage work, an approve or reject click on a       *)
(* pending request whose prompt handle is stored updates the approval      *)
(* message in place (terminal display) and sends the employee a direct     *)
(* message, in the same handler call; an approve of a leave type that is   *)
(* not retrospective also posts the public announcement.                   *)
C17_DecideUpdatesMessage ==
    (last.op \in Deciders /\ last.pre = STATUS_PENDING
        /\ HasHandle(requests[last.id]))
        => /\ [kind |-> "message_update",
               channel |-> requests[last.id].slack_channel_id] \in outbox
           /\ [kind |-> "employee_dm",
               channel |-> requests[last.id].employee] \in outbox
           /\ (last.op = "approve_leave"
                 /\ requests[last.id].leave_type \notin Retrospective)
                 => Kinds(outbox, "announcement") # {}

(* C18: when Slack and storage work, a cancel of a pending request whose   *)
(* prompt handle is stored updates the approval message in place (terminal *)
(* "cancelled" display) and sends the employee a direct message that the   *)
(* cancellation succeeded.                                                 *)
C18_CancelUpdatesMessage ==
    (last.op = "cancel" /\ last.pre = STATUS_PENDING
        /\ HasHandle(requests[last.id]))
        => /\ [kind |-> "message_update",
               channel |-> requests[last.id].slack_channel_id] \in outbox
           /\ [kind |-> "employee_dm",
               channel |-> requests[last.id].employee] \in outbox

(* C19: at most one public announcement is ever posted for a request, and  *)
(* a request that is rejected or cancelled has none; an announcement is    *)
(* posted only by an approve click on a pending request whose leave type   *)
(* is not retrospective.                                                   *)
C19_AnnouncementOnlyForApproved ==
    /\ \A i \in Ids :
          /\ CopiesIn(i, announced) <= 1
          /\ requests[i].status \in {STATUS_REJECTED, STATUS_CANCELLED}
                => CopiesIn(i, announced) = 0
    /\ Kinds(outbox, "announcement") # {}
          => /\ last.op = "approve_leave"
             /\ last.pre = STATUS_PENDING
             /\ requests[last.id].leave_type \notin Retrospective

(* C20: while storage works, no failure of a Slack call blocks or undoes   *)
(* the core mutation: a create or update that passes validation with a     *)
(* stored leave type, a cancel of a pending request and an approve or      *)
(* reject of a pending request by                                          *)
(* a known employee write the request and its audit row whatever the       *)
(* Slack calls answer; in particular an approve click on a pending request *)
(* leaves it approved.                                                     *)
C20_NotificationNeverBlocks ==
    /\ (last.op \in Deciders \cup {"cancel"} /\ last.pre = STATUS_PENDING
           /\ last.user \in employees)
          => last.wrote /\ last.audited
    /\ (last.op \in Submissions /\ last.result \in {"Done", "Error"}
           /\ form.leave_type \in LeaveTypes)
          => last.wrote /\ last.audited
    /\ (last.op = "approve_leave" /\ last.pre = STATUS_PENDING
           /\ last.user \in employees)
          => requests[last.id].status = STATUS_APPROVED

(* C21: one execution of the reminder task that reads the request table    *)
(* posts a reminder to the manager if and only if the request exists, is   *)
(* pending and its employee has a manager; otherwise it delivers nothing,  *)
(* ends without error and leaves no task behind for a retry.  No execution *)
(* changes a request or an audit trail.                                    *)
ReminderCase(i) ==
    /\ i \in Ids
    /\ requests[i].status = STATUS_PENDING
    /\ Manager(requests[i].employee) \in Users

C21_ReminderCallback ==
    [][last'.op = "reminder" =>
          /\ UNCHANGED <<requests, audit>>
          /\ Kinds(outbox', "reminder") # {}
                => /\ ReminderCase(last'.id)
                   /\ outbox' = {[kind |-> "reminder",
                                  channel |-> Manager(requests[last'.id].employee)]}
          /\ (ReminderCase(last'.id) /\ last'.result # "ReadFailed")
                => /\ last'.result \in {"Done", "Retry"}
                   /\ last'.result = "Done" <=> Kinds(outbox', "reminder") # {}
          /\ (~ReminderCase(last'.id) /\ last'.result # "ReadFailed")
                => /\ outbox' = {}
                   /\ last'.result \in {"NotFound", "Skipped"}
                   /\ BagCardinality(reminders') = BagCardinality(reminders) - 1
                   /\ TasksFor(reminders', last'.id) \subseteq TasksFor(reminders, last'.id)
    ]_vars

C21_Witness ==
    /\ last.op = "reminder"
    /\ last.result = "Skipped"
    /\ last.pre = STATUS_PENDING
    /\ reminders = EmptyBag

(* C22: an approve or reject that writes a request is performed by the     *)
(* manager of the request's employee, never by the requesting employee,    *)
(* and an update or cancel that writes a request is performed by the       *)
(* employee who owns it.                                                   *)
C22_OnlyApproverDecides ==
    /\ (last.op \in Deciders /\ last.wrote)
          => /\ last.user = Manager(requests[last.id].employee)
             /\ last.user # requests[last.id].employee
    /\ (last.op \in {"update", "cancel"} /\ last.wrote)
          => last.user = requests[last.id].employee

(* C23: an inbound webhook that lacks a signature header, whose timestamp  *)
(* is more than 5 minutes from the server's clock, that arrives while no   *)
(* signing secret is configured, or whose signature does not match, is     *)
(* answered 403 and changes no request, audit row, message or reminder.    *)
Tolerance == 300

Authentic(request) ==
    /\ request.has_signature /\ request.has_timestamp
    /\ request.age <= Tolerance /\ -request.age <= Tolerance
    /\ request.secret_set
    /\ request.signature_matches

C23_UnverifiedAnswered403 ==
    [][(inbound' \in HttpRequests /\ ~Authentic(inbound'))
          => /\ last'.response = "403"
             /\ UNCHANGED <<employees, requests, audit, reminders, announced>>
             /\ outbox' = {}]_vars

(* C24: when Slack and storage work, an update that writes a request whose *)
(* prompt handle is stored updates the approval message in place, posts no *)
(* second prompt and sends the employee a direct message that the update   *)
(* succeeded.                                                              *)
C24_UpdateEditsMessage ==
    (last.op = "update" /\ last.wrote /\ HasHandle(requests[last.id]))
        => /\ [kind |-> "message_update",
               channel |-> requests[last.id].slack_channel_id] \in outbox
           /\ Kinds(outbox, "prompt") = {}
           /\ [kind |-> "employee_dm",
               channel |-> requests[last.id].employee] \in outbox

(* C25: an update that writes a pending request which has no stored prompt *)
(* handle sends the approval prompt to the resolved destination and stores *)
(* its handle on the request.                                              *)
C25_UpdateWithoutHandlePrompts ==
    [][\A i \in Ids :
          (~HasHandle(requests[i]) /\ requests[i].status = STATUS_PENDING
              /\ last'.op = "update" /\ last'.id = i /\ last'.wrote)
             => /\ [kind |-> "prompt",
                    channel |-> destination_channel(requests[i].employee)] \in outbox'
                /\ HasHandle(requests'[i])]_vars

(* C26: an approval prompt is posted only by the create call that inserts  *)
(* the request, so at most once for a request, and no later step (update,  *)
(* cancel, approve, reject, reminder) changes or clears the channel and    *)
(* message timestamp stored on a request, or sets them afterwards.         *)
Handle(r) == <<r.slack_channel_id, r.slack_message_ts>>

C26_PromptOnceHandleStable ==
    [][/\ Kinds(outbox', "prompt") # {}
            => /\ last'.op = "create"
               /\ Cardinality(Kinds(outbox', "prompt")) = 1
               /\ last'.wrote => /\ Len(requests') = Len(requests) + 1
                                 /\ last'.id = Len(requests')
       /\ \A i \in Ids :
            /\ i \in 1..Len(requests')
            /\ Handle(requests'[i]) = Handle(requests[i])]_vars

C26_Witness ==
    /\ last.op = "approve_leave"
    /\ last.wrote
    /\ HasHandle(requests[last.id])
    /\ Len(audit[last.id]) = 3
    /\ audit[last.id][2].action = "updated"

(* C27: while storage works, a create that passes validation with a stored *)
(* leave type persists the request as pending with its "created" audit row *)
(* whatever becomes of the prompt.  The prompt goes to the employee's      *)
(* manager if there is one, else to the fallback channel; the handle is    *)
(* stored exactly when the prompt was delivered, so none is stored when    *)
(* no destination is available or when the send fails.                     *)
Destination(user) ==
    IF Manager(user) \in Users THEN Manager(user) ELSE request_channel

C27_PromptDestination ==
    [][(last'.op = "create" /\ last'.result \in {"Done", "Error"}
           /\ form'.leave_type \in LeaveTypes)
          => LET i == Len(requests) + 1
                 sent == Kinds(outbox', "prompt")
             IN  /\ Len(requests') = i
                 /\ requests'[i].status = STATUS_PENDING
                 /\ requests'[i].employee = form'.user
                 /\ audit'[i] = <<[action |-> "created", performed_by |-> form'.user]>>
                 /\ sent \subseteq {[kind |-> "prompt", channel |-> Destination(form'.user)]}
                 /\ Destination(form'.user) = "" => sent = {}
                 /\ sent = {} => Handle(requests'[i]) = <<"", 0>>
                 /\ sent # {} => /\ requests'[i].slack_channel_id = Destination(form'.user)
                                 /\ requests'[i].slack_message_ts # 0]_vars

C27_Witness ==
    /\ last.op = "create"
    /\ last.wrote
    /\ request_channel = ""
    /\ Manager(last.user) = ""
    /\ requests[last.id].status = STATUS_PENDING
    /\ ~HasHandle(requests[last.id])
    /\ Kinds(outbox, "prompt") = {}

(* C28: a send of the approval prompt whose first attempt fails is tried   *)
(* again, up to 3 more times (attempts 2 to 4): when one of those attempts *)
(* would succeed the prompt is delivered and its handle is stored on the   *)
(* request.                                                                *)
C28_SendRetried ==
    (last.op = "create" /\ last.wrote /\ last.tries # <<>>
        /\ last.tries[1] # "ok"
        /\ \E k \in 2..4 :
              k \in DOMAIN last.tries /\ last.tries[k] = "ok")
        => /\ Kinds(outbox, "prompt") # {}
           /\ HasHandle(requests[last.id])

(* C29: the reminder task terminates.  A queued task has been retried at   *)
(* most 3 times, every execution either removes the task or replaces it by *)
(* the same task with one more retry counted, so one scheduled reminder    *)
(* runs at most 4 times; an execution that finds no request, or a request  *)
(* that is not pending, removes the task without a retry.                  *)
RECURSIVE ExecutionsLeft(_, _)
ExecutionsLeft(bag, tasks) ==
    IF tasks = {} THEN 0
    ELSE LET t == CHOOSE x \in tasks : TRUE
         IN  CopiesIn(t, bag) * (MaxRetries + 1 - t.retries)
                + ExecutionsLeft(bag, tasks \ {t})

C29_ReminderTerminates ==
    [][/\ \A t \in BagToSet(reminders') : t.retries \in 0..MaxRetries
       /\ last'.op = "reminder"
            => /\ ExecutionsLeft(reminders', BagToSet(reminders'))
                     < ExecutionsLeft(reminders, BagToSet(reminders))
               /\ BagCardinality(reminders') <= BagCardinality(reminders)
               /\ (last'.result \in {"NotFound", "Skipped"}
                     \/ (last'.pre # STATUS_PENDING /\ last'.result # "ReadFailed"))
                     => BagCardinality(reminders') = BagCardinality(reminders) - 1]_vars

C29_Witness ==
    /\ last.op = "reminder"
    /\ last.result = "Retry"
    /\ last.pre = STATUS_PENDING
    /\ reminders = EmptyBag

(* C30: a create, update, cancel, approve or reject call that commits no   *)
(* request write has delivered no prompt, announcement, thread note,       *)
(* message update or employee notification: such messages go out only for  *)
(* a transition that is committed.                                         *)
TransitionKinds ==
    {"prompt", "announcement", "thread_note", "message_update", "employee_dm"}

C30_MessagesOnlyAfterCommit ==
    (last.op \in {"create", "update", "cancel"} \cup Deciders /\ ~last.wrote)
        => \A m \in outbox : m.kind \notin TransitionKinds

(* C31: a create by an employee whose stored requests are all cancelled or *)
(* rejected is judged as if the table held none of them: it is never       *)
(* rejected with Overlap, the allowance rule rejects it exactly when its   *)
(* own business days exceed the full monthly allowance, a form that passes *)
(* every rule is written, and the stored terminal requests and their audit *)
(* trails stay as they were.                                               *)
Released(user) ==
    {i \in Ids : /\ requests[i].employee = user
                 /\ requests[i].status \in {STATUS_CANCELLED, STATUS_REJECTED}}

C31_TerminalReleases ==
    [][(last'.op = "create" /\ form'.user \in employees
           /\ form'.leave_type \in LeaveTypes
           /\ Released(form'.user) # {}
           /\ \A i \in Ids : requests[i].employee = form'.user
                                => i \in Released(form'.user))
          => /\ last'.result # "Overlap"
             /\ last'.result \notin {"PastDate", "InvalidRange", "NonWorkingRange"}
                  => /\ last'.result = "AllowanceExceeded"
                        <=> BusinessDays(form'.start_date, form'.end_date)
                               > monthly_leave_allowance(form'.user)
                     /\ last'.result = "AllowanceExceeded"
                        => last'.remaining = monthly_leave_allowance(form'.user)
                     /\ last'.result # "AllowanceExceeded"
                        => /\ last'.wrote
                           /\ Len(requests') = Len(requests) + 1
             /\ \A i \in Ids : requests'[i] = requests[i] /\ audit'[i] = audit[i]]_vars

C31_Witness ==
    /\ last.op = "create"
    /\ last.wrote
    /\ Len(requests) = 2
    /\ requests[1].status \in {STATUS_CANCELLED, STATUS_REJECTED}
    /\ requests[1].employee = requests[2].employee
    /\ requests[1].start_date = requests[2].start_date
    /\ requests[1].end_date = requests[2].end_date
    /\ requests[2].status = STATUS_PENDING

(* C32: for every submitted range that reaches the working-day rule, the   *)
(* business-day count that validation computes for the form equals the     *)
(* duration_days that a stored request with the same range reports.        *)
C32_OneZeroDayPolicy ==
    (last.op \in Submissions /\ last.result \notin {"PastDate", "InvalidRange"})
        => requested_days(form.start_date, form.end_date)
              = duration_days([start_date |-> form.start_date,
                               end_date |-> form.end_date])

(* C33: an update that writes a request overwrites its start date, end     *)
(* date, leave type and reason with the form's values and leaves its       *)
(* status (a pending request stays pending), approver, owning employee and *)
(* message handle as they were; no other request changes.                  *)
C33_UpdateFrame ==
    [][(last'.op = "update" /\ last'.wrote)
          => /\ Len(requests') = Len(requests)
             /\ \A i \in Ids :
                  IF i = last'.id
                  THEN /\ requests'[i].status = requests[i].status
                       /\ requests'[i].approver = requests[i].approver
                       /\ requests'[i].employee = requests[i].employee
                       /\ Handle(requests'[i]) = Handle(requests[i])
                       /\ requests'[i].start_date = form'.start_date
                       /\ requests'[i].end_date = form'.end_date
                       /\ requests'[i].leave_type = form'.leave_type
                       /\ DOMAIN requests'[i] = DOMAIN requests[i]
                  ELSE requests'[i] = requests[i]]_vars

C33_Witness ==
    /\ last.op = "update"
    /\ last.wrote
    /\ last.pre = STATUS_PENDING
    /\ requests[last.id].status = STATUS_PENDING
    /\ requests[last.id].start_date = 31
    /\ requests[last.id].end_date = 35
    /\ HasHandle(requests[last.id])

(* C34: the audit log is append-only.  At every step each request's audit  *)
(* trail keeps the rows it had, unchanged and in the same order, and any   *)
(* row added at its end has one of the actions created, updated,           *)
(* cancelled, approved, rejected; no trail disappears.                     *)
AuditActions == {"created", "updated"} \cup Terminal

C34_AuditAppendOnly ==
    [][/\ Len(audit') >= Len(audit)
       /\ \A i \in 1..Len(audit) :
            /\ Len(audit'[i]) >= Len(audit[i])
            /\ SubSeq(audit'[i], 1, Len(audit[i])) = audit[i]
       /\ \A i \in 1..Len(audit') : \A k \in 1..Len(audit'[i]) :
            audit'[i][k].action \in AuditActions]_vars

C34_Witness ==
    /\ Len(audit) = 1
    /\ Len(audit[1]) = 3
    /\ audit[1][1].action = "created"
    /\ audit[1][2].action = "updated"
    /\ audit[1][3].action = "cancelled"
    /\ last.op = "reminder"

(***************************************************************************)
(* C35: a create by an unknown employee or with an unknown leave type, and *)
(* an update or cancel of a request id the table does not hold, answer     *)
(* with a user-facing error and leave requests, audit rows, messages and   *)
(* scheduled reminders as they were.                                       *)
(***************************************************************************)
LookupFailed ==
    /\ last'.op \in {"create", "update", "cancel"}
    /\ \/ last'.op = "create" /\ form'.user \notin employees
       \/ last'.op = "create" /\ form'.user \in employees
          /\ validate_leave_request(form'.user, form'.start_date, form'.end_date,
                                    form'.leave_type, 0).tag = "Ok"
          /\ form'.leave_type \notin LeaveTypes
       \/ last'.op \in {"update", "cancel"} /\ last'.id \notin Ids

C35_NotFoundSideEffectFree ==
    [][LookupFailed =>
        /\ last'.response \in {"errors", "404"}
        /\ UNCHANGED <<requests, audit, reminders, announced>>
        /\ outbox' = {}]_vars

C35_Witness ==
    /\ last.op = "cancel" /\ last.result = "NotFound" /\ last.id \notin Ids
    /\ Len(requests) > 0

(***************************************************************************)
(* C36: after a user's interaction of any kind an Employee record exists   *)
(* for that user.  (employees is a set keyed by the Slack user id, so a    *)
(* second record for one id cannot be told apart here.)                    *)
(***************************************************************************)
C36_EmployeeAfterInteraction ==
    (last.op \in {"create", "button"} /\ last.user # "") => last.user \in employees

(***************************************************************************)
(* C37: with the holiday set and the allowances fixed, after any sequence  *)
(* of completed create, update, cancel and decide calls, for every         *)
(* employee and month the business days of the employee's pending and      *)
(* approved requests that start in the month do not exceed the employee's  *)
(* monthly allowance.                                                      *)
(***************************************************************************)
Months == {MonthOf(d) : d \in Dates \cup FormDates}

Ledger(u) ==
    {i \in Ids : /\ requests[i].employee = u
                 /\ requests[i].status \in {STATUS_PENDING, STATUS_APPROVED}}

C37_AllowanceNeverExceeded ==
    \A u \in Users, m \in Months :
        SumBusinessDays({i \in Ledger(u) : MonthOf(requests[i].start_date) = m})
            <= monthly_leave_allowance(u)

C37_Witness ==
    /\ last.op \in {"create", "update"} /\ last.result = "AllowanceExceeded"
    /\ \E u \in Users :
        /\ Cardinality(Ledger(u)) = 2
        /\ SumBusinessDays(Ledger(u)) = monthly_leave_allowance(u)

(***************************************************************************)
(* C38: after any sequence of completed create, update, cancel and decide  *)
(* calls no two distinct pending or approved requests of one employee      *)
(* share a day; a create submitted again for the dates of a request that   *)
(* is still pending or approved stores no second request.                  *)
(***************************************************************************)
C38_NoOverlapInLedger ==
    \A u \in Users : \A i \in Ledger(u), j \in Ledger(u) :
        i # j => \/ requests[i].end_date < requests[j].start_date
                 \/ requests[j].end_date < requests[i].start_date

C38_Witness ==
    /\ last.op = "create" /\ last.result = "Overlap" /\ ~last.wrote
    /\ Len(requests) = 1
    /\ requests[1].employee = form.user
    /\ requests[1].start_date = form.start_date
    /\ requests[1].end_date = form.end_date

(***************************************************************************)
(* C39: when two create or update submissions are processed at the same    *)
(* time, no two pending or approved requests of one employee share a day   *)
(* and no employee's month exceeds the allowance in the committed table,   *)
(* and two transactions that validated against the same table, in which    *)
(* neither's row was visible, are never both committed.                    *)
(***************************************************************************)
Persisting(c) ==
    /\ sessions[c].phase = "written" /\ sessions'[c].phase = "done"
    /\ last'.wrote

LedgerIn(table, u) ==
    {i \in 1..Len(table) : /\ table[i].employee = u
                           /\ table[i].status \in {STATUS_PENDING, STATUS_APPROVED}}

RECURSIVE DaysIn(_, _)
DaysIn(table, S) ==
    IF S = {} THEN 0
    ELSE LET i == CHOOSE j \in S : TRUE
         IN  BusinessDays(table[i].start_date, table[i].end_date)
             + DaysIn(table, S \ {i})

C39_ValidationInsertionInseparable ==
    [][/\ \A c \in Connections : Persisting(c) => sessions[c].seen = AuditRows(audit)
       /\ \A u \in Users :
           /\ \A i \in LedgerIn(requests', u), j \in LedgerIn(requests', u) :
                  i # j => \/ requests'[i].end_date < requests'[j].start_date
                           \/ requests'[j].end_date < requests'[i].start_date
           /\ \A m \in Months :
                  DaysIn(requests', {i \in LedgerIn(requests', u) :
                                        MonthOf(requests'[i].start_date) = m})
                      <= monthly_leave_allowance(u)]_vars

C39_Witness ==
    /\ last.op = "create" /\ last.result = "Locked" /\ ~last.wrote
    /\ \E d \in Connections :
        /\ sessions[d].phase = "written"
        /\ sessions[d].seen = AuditRows(audit)
        /\ sessions[d].form.id = 0
        /\ sessions[d].form.user = form.user
        /\ sessions[d].form.start_date = form.start_date
        /\ sessions[d].form.end_date = form.end_date

(***************************************************************************)
(* C40: whenever the create, update, cancel or decide handler answers with *)
(* an error (form errors, a 400, 404 or 500 status, or an "error occurred" *)
(* body), the stored requests and audit rows are as they were before the   *)
(* call.                                                                   *)
(***************************************************************************)
ErrorAnswers == {"errors", "400", "404", "500", "error_body"}

C40_ErrorAnswerMeansNothingStored ==
    [][(/\ last'.op \in {"create", "update", "cancel"} \cup Deciders
        /\ last'.response \in ErrorAnswers)
       => UNCHANGED <<requests, audit>>]_vars

====
